---- MODULE Spec2Model ----
(***************************************************************************)
(* A model of package ups (src/ups.go): an upsHandler built by             *)
(* UPSWithParameterAndConfig and the ServeHTTP calls made on it by the     *)
(* goroutines of the hosting net/http server.                              *)
(*                                                                         *)
(* One ServeHTTP call is a process that walks through the body of          *)
(* ups.go:271-405.  The steps are cut where the call touches the shared    *)
(* sync.Pool or hands control to foreign code (the handler func, the       *)
(* ResponseWriter).  Every step appends the calls it makes to log[p], the  *)
(* call history of that ServeHTTP call; the properties are stated over     *)
(* this history, the local variables of the call and the pool.             *)
(***************************************************************************)
EXTENDS Integers, Sequences, FiniteSets, TLC

\* ------------------------------------------------------------------ bounds
\* Goroutines of the http server that may be inside ServeHTTP at once.
NumProcs == 2
\* Message instances that may be allocated at the same time.
MaxInst == 3
\* Longest parameter list and longest result list of a handler func tried.
MaxIn == 4
MaxOut == 3
\* Width in bits of the request-identifier counter (64 in the code).
CounterBits == 3
\* Requests served in a run of the version that numbers them; fewer than
\* the counter has values.
MaxRequests == 4

Procs == 1 .. NumProcs
InstIds == 1 .. MaxInst

\* ----------------------------------------------------- net/http constants
StatusOK == 200
StatusMethodNotAllowed == 405
StatusUnsupportedMediaType == 415
StatusTeapot == 418
StatusInternalServerError == 500

MethodPost == "POST"
MethodGet == "GET"
Methods == {MethodPost, MethodGet}

\* ------------------------------------------------------------ handlerType
messageHandlerType == "messageHandlerType"
contextHandlerType == "contextHandlerType"
requestHandlerType == "requestHandlerType"
paramHandlerType == "paramHandlerType"
contextParamHandlerType == "contextParamHandlerType"
requestParamHandlerType == "requestParamHandlerType"

HandlerTypes ==
    { messageHandlerType, contextHandlerType, requestHandlerType,
      paramHandlerType, contextParamHandlerType, requestParamHandlerType }

\* --------------------------------------------------------------- messages
\* The request message type of the examples and tests has one string field
\* (HelloRequest.name); its value "" is the proto3 default, the state that
\* Reset() and reflect.New produce.
EmptyMsg == ""
Names == {"a"}
\* The strings a field may hold on the wire: the names of the requests, what
\* a handler may write into its request message ("h"), and the greetings of
\* the responses.
Texts == Names \cup {"h", "Hello, !", "Hello, a!", "Hello, h!"}

\* ------------------------------------------------------------------ bytes
\* A body is a sequence of tokens.  JSON text: "{" name "}" ; binary: the
\* tag of field 1 ("0a") followed by the string; "x" is a token neither
\* decoder accepts at that place (an unknown JSON field, a bad wire type).
Bodies ==
    { <<>>,
      <<"{", "}">>,
      <<"{", "a", "}">>,
      <<"{", "a", "x", "}">>,
      <<"0a", "a">>,
      <<"0a", "a", "x">>,
      <<"x">> }

\* Content-Type header values.  mt is the media type in lower case, upper
\* says that the header spells it in upper case, params is the parameter
\* list: "none", "ok" (e.g. "; charset=utf-8") or "bad" (e.g. "; charset").
\* The absent header is the empty string (http.Header.Get).
Header(mt, upper, params) == [mt |-> mt, upper |-> upper, params |-> params]

Headers ==
    { Header("", FALSE, "none"),
      Header("application/json", FALSE, "none"),
      Header("application/json", TRUE, "none"),
      Header("application/json", FALSE, "ok"),
      Header("application/json", FALSE, "bad"),
      Header("application/octet-stream", FALSE, "none"),
      Header("application/x-protobuf", FALSE, "none"),
      Header("text/plain", FALSE, "none"),
      Header("application/", FALSE, "none") }

\* mime.ParseMediaType: the media type is lower-cased and trimmed, then
\* checked for the type "/" subtype form, then the parameters are parsed.
\* An empty value and a value without subtype are errors, and so is a
\* parameter list that does not parse.
ParseMediaType(h) ==
    LET wellFormed == h.mt \notin {"", "application/"}
    IN  IF ~wellFormed
        THEN [mediatype |-> "", err |-> TRUE]
        ELSE IF h.params = "bad"
             THEN [mediatype |-> h.mt, err |-> TRUE]
             ELSE [mediatype |-> h.mt, err |-> FALSE]

\* Faulty variant: the default case of the switch falls into the binary case.
NegotiateDefaultBinary(h, jsonMarshaler) ==
    LET parsed == ParseMediaType(h)
    IN  IF parsed.err
        THEN [fmt |-> "reject", logError |-> TRUE]
        ELSE CASE parsed.mediatype = "application/json" ->
                      IF jsonMarshaler
                      THEN [fmt |-> "json", logError |-> FALSE]
                      ELSE [fmt |-> "reject", logError |-> FALSE]
               [] OTHER -> [fmt |-> "binary", logError |-> FALSE]

\* The switch on the parsed contentType: the format chosen, or the status
\* of the rejection.  fmt is "json", "binary" or "reject".
Negotiate(h, jsonMarshaler) ==
    LET parsed == ParseMediaType(h)
    IN  IF parsed.err
        THEN [fmt |-> "reject", logError |-> TRUE]
        ELSE CASE parsed.mediatype = "application/json" ->
                      IF jsonMarshaler
                      THEN [fmt |-> "json", logError |-> FALSE]
                      ELSE [fmt |-> "reject", logError |-> FALSE]
               [] parsed.mediatype \in {"application/octet-stream", "application/x-protobuf"} ->
                      [fmt |-> "binary", logError |-> FALSE]
               [] OTHER -> [fmt |-> "reject", logError |-> FALSE]

\* ----------------------------------------------------------------- codecs
\* proto.Unmarshal(req, msg): resets msg, then decodes field by field, so a
\* body that goes wrong after a field leaves that field set.
ProtoUnmarshal(body, cur) ==
    CASE body = <<>> -> [err |-> FALSE, msg |-> EmptyMsg]
      [] Len(body) = 2 /\ body[1] = "0a" /\ body[2] \in Texts ->
             [err |-> FALSE, msg |-> body[2]]
      [] Len(body) = 3 /\ body[1] = "0a" /\ body[2] \in Texts ->
             [err |-> TRUE, msg |-> body[2]]
      [] OTHER -> [err |-> TRUE, msg |-> EmptyMsg]

\* jsonpb.Unmarshal(reader, msg): sets the fields present in the text and
\* leaves the others as they are (no Reset); an unknown field is an error
\* found after the known fields were set.
JSONUnmarshal(body, cur) ==
    CASE body = <<"{", "}">> -> [err |-> FALSE, msg |-> cur]
      [] Len(body) = 3 /\ body[1] = "{" /\ body[2] \in Texts /\ body[3] = "}" ->
             [err |-> FALSE, msg |-> body[2]]
      [] Len(body) = 4 /\ body[1] = "{" /\ body[2] \in Texts /\ body[4] = "}" ->
             [err |-> TRUE, msg |-> body[2]]
      [] OTHER -> [err |-> TRUE, msg |-> cur]

Unmarshal(json, body, cur) ==
    IF json THEN JSONUnmarshal(body, cur) ELSE ProtoUnmarshal(body, cur)

\* proto.Marshal / JSONMarshaler.MarshalToString of a message whose single
\* field holds v: proto3 leaves a default-valued field out.
ProtoMarshal(v) == IF v = EmptyMsg THEN <<>> ELSE <<"0a", v>>

JSONMarshal(v) == IF v = EmptyMsg THEN <<"{", "}">> ELSE <<"{", v, "}">>

\* Faulty variant: the response is always in the binary format.
MarshalAlwaysBinary(json, v) == ProtoMarshal(v)

Marshal(json, v) == IF json THEN JSONMarshal(v) ELSE ProtoMarshal(v)

\* Faulty variant: the response is always labelled as JSON.
ContentTypeAlwaysJSON(json) == "application/json"

\* ups.go:376, 385: the Content-Type of the response for the format.
ContentTypeOf(json) == IF json THEN "application/json" ELSE "application/octet-stream"

\* Faulty variant: Reset leaves the fields as they are.
ResetKeeps(m) == m

\* proto.Message.Reset()
Reset(m) == EmptyMsg

\* ---------------------------------------------------------------- handler
\* The handler func is foreign code.  What it may do with the message it is
\* handed: return a new response built from it (the examples' greeting),
\* return the request message itself, return a typed nil pointer, return a
\* nil interface value, return an error, or panic; it may also write to the
\* request message before it returns or panics.
Greet(name) ==
    CASE name = EmptyMsg -> "Hello, !"
      [] name = "a" -> "Hello, a!"
      [] OTHER -> "Hello, h!"

NoErr == [isNil |-> TRUE, coder |-> FALSE, code |-> 0]
PlainErr == [isNil |-> FALSE, coder |-> FALSE, code |-> 0]
CoderErr(c) == [isNil |-> FALSE, coder |-> TRUE, code |-> c]

\* Status codes a StatusCoder error of the handler reports.
CoderCodes == {StatusTeapot, StatusOK}

Outcome(kind, result, err, pv, mutate) ==
    [kind |-> kind, result |-> result, err |-> err, pv |-> pv, mutate |-> mutate]

\* panic(nil) reaches recover() as nil or as a *runtime.PanicNilError,
\* depending on the Go version and GODEBUG=panicnil of the build.
PanicValues == {"boom", "nil", "PanicNilError"}

HandlerOutcomes(numOut) ==
    { Outcome("return", r, NoErr, "none", FALSE) : r \in {"fresh", "same", "nilptr", "nilif"} }
    \cup { Outcome("return", "fresh", NoErr, "none", TRUE) }
    \cup { Outcome("panic", "none", NoErr, v, m) : v \in PanicValues, m \in BOOLEAN }
    \cup IF numOut = 2
         THEN { Outcome("return", r, e, "none", FALSE) :
                    r \in {"nilptr", "fresh"},
                    e \in {PlainErr} \cup { CoderErr(c) : c \in CoderCodes } }
         ELSE {}

\* ------------------------------------------------------------------ state
VARIABLES
    contextID,   \* the package's request-identifier counter (the version that has one)
    issued,      \* the identifiers handed out, in the order of the increments
    ctxID,       \* the identifier in the context of each call
    env,         \* the surroundings: serving goroutines, traffic, handler func, writer
    ups,         \* the upsHandler: config, handlerType, the handler's shape
    pool,        \* requestObjectPool: the instances a Get may hand out
    live,        \* the instances allocated and not yet garbage
    inst,        \* the content of each instance
    pc,          \* where each ServeHTTP call stands
    req,         \* r: the *http.Request of the call
    json,        \* the local json
    arg,         \* the local arg: the instance got from the pool, 0 before
    statusCode,  \* the local statusCode
    resp,        \* the local resp: the bytes still to write
    ctype,       \* w.Header()["Content-Type"]
    hres,        \* the local result: what the handler returned
    panicV,      \* the value of the panic that is unwinding the call
    written,     \* the bytes the ResponseWriter accepted
    log,         \* the calls made by this ServeHTTP call, in order
    panicked     \* history: some handler invocation has panicked

vars ==
    << contextID, issued, ctxID, env, ups, pool, live, inst, pc, req, json, arg, statusCode, resp, ctype,
       hres, panicV, written, log, panicked >>

Requests == [method : Methods, header : Headers, body : Bodies, readErr : BOOLEAN]

NoReq == [method |-> "", header |-> Header("", FALSE, "none"), body |-> <<>>, readErr |-> FALSE]
NoRes == [result |-> "none", text |-> ""]

\* ----------------------------------------------------------- construction
\* Types as reflect sees them.  A func type is its parameter types and its
\* result types; *HelloRequest and *HelloResponse are the proto.Message
\* types of the tests, int stands for any other type.
InTypes == {"*HelloRequest", "context.Context", "*http.Request", "int"}
OutTypes == {"*HelloResponse", "error", "int"}

SeqsUpTo(S, n) == UNION { [1..k -> S] : k \in 0..n }

FuncType(in, out) == [in |-> in, out |-> out]
FuncTypes == [in : SeqsUpTo(InTypes, MaxIn), out : SeqsUpTo(OutTypes, MaxOut)]

errorType == "error"
messageType == "proto.Message"
contextType == "context.Context"
requestType == "*http.Request"
NoType == "nil"

\* reflect.Type.Implements for the two interfaces the constructor asks for;
\* an interface type implements itself.
Implements(t, iface) ==
    CASE iface = messageType -> t \in {"*HelloRequest", "*HelloResponse", "proto.Message"}
      [] iface = errorType -> t = "error"
      [] OTHER -> FALSE

\* Values passed as the parameter: nil (UPS and UPSWithConfig pass it), an
\* int, a context.Context value.
NilParameter == [type |-> NoType, val |-> "nil"]
Parameters == { NilParameter, [type |-> "int", val |-> "1"],
                [type |-> "backgroundCtx", val |-> "context.Background()"] }

\* reflect.TypeOf: the dynamic type, nil for the nil interface value.
TypeOf(v) == v.type

\* Faulty variant: every type is assignable to every type.
AssignableToAny(t, u) == TRUE

\* reflect.Type.AssignableTo.
AssignableTo(t, u) == t = u \/ (u = contextType /\ t = "backgroundCtx")

\* Config: JSONMarshaler set or nil, the ten logging hooks set or nil, the
\* ErrorResponse formatter set or nil.
ConfigWith(jsonMarshaler, hooks, errorResponse) ==
    [JSONMarshaler |-> jsonMarshaler, hooks |-> hooks, ErrorResponse |-> errorResponse]

\* DefaultConfig sets the hooks and no formatter; the tests change only
\* JSONMarshaler.
Config(jsonMarshaler) == ConfigWith(jsonMarshaler, TRUE, FALSE)
DefaultConfig == Config(TRUE)

\* The call UPSWithParameterAndConfig(handler, parameter, config) and what
\* came of it: pending, returned (the upsHandler) or panicked.
Registration(handler, parameter, config) ==
    [call |-> "pending", handler |-> handler, parameter |-> parameter,
     JSONMarshaler |-> config.JSONMarshaler, hooks |-> config.hooks,
     ErrorResponse |-> config.ErrorResponse, handlerType |-> "", reqType |-> NoType,
     numOut |-> Len(handler.out), panic |-> ""]

\* ups.go:201-213: the switch over ty.NumOut(); "" when the results pass.
CheckOut(ty) ==
    CASE Len(ty.out) = 2 /\ ~Implements(ty.out[2], errorType) ->
             "ups: invalid handler error return type"
      [] Len(ty.out) \in {1, 2} /\ ~Implements(ty.out[1], messageType) ->
             "ups: invalid handler message return type"
      [] Len(ty.out) \notin {1, 2} -> "ups: invalid handler return type"
      [] OTHER -> ""

\* Faulty variant: a three-parameter func of any first parameter binds as
\* contextParamHandlerType.
CheckInLax(ty) ==
    CASE Len(ty.in) = 1 ->
             [panic |-> "", handlerType |-> messageHandlerType,
              reqType |-> ty.in[1], paramType |-> NoType]
      [] Len(ty.in) = 2 ->
             [panic |-> "", handlerType |-> paramHandlerType,
              reqType |-> ty.in[2], paramType |-> ty.in[1]]
      [] Len(ty.in) = 3 ->
             [panic |-> "", handlerType |-> contextParamHandlerType,
              reqType |-> ty.in[3], paramType |-> ty.in[2]]
      [] OTHER ->
             [panic |-> "ups: invalid handler parameter types", handlerType |-> "",
              reqType |-> NoType, paramType |-> NoType]

\* ups.go:215-246: the switch over ty.NumIn(): handlerType, reqType and
\* paramType, or the panic.
CheckIn(ty) ==
    LET bad == [panic |-> "ups: invalid handler parameter types", handlerType |-> "",
                reqType |-> NoType, paramType |-> NoType]
        ok(ht, rt, pt) == [panic |-> "", handlerType |-> ht, reqType |-> rt, paramType |-> pt]
    IN  CASE Len(ty.in) = 1 -> ok(messageHandlerType, ty.in[1], NoType)
          [] Len(ty.in) = 2 ->
                 ( CASE ty.in[1] = contextType -> ok(contextHandlerType, ty.in[2], NoType)
                     [] ty.in[1] = requestType -> ok(requestHandlerType, ty.in[2], NoType)
                     [] OTHER -> ok(paramHandlerType, ty.in[2], ty.in[1]) )
          [] Len(ty.in) = 3 ->
                 ( CASE ty.in[1] = contextType -> ok(contextParamHandlerType, ty.in[3], ty.in[2])
                     [] ty.in[1] = requestType -> ok(requestParamHandlerType, ty.in[3], ty.in[2])
                     [] OTHER -> bad )
          [] OTHER -> bad

\* ups.go:248-250.
CheckReq(reqType) ==
    IF Implements(reqType, messageType) THEN "" ELSE "ups: invalid handler parameter type"

\* Faulty variant: a nil parameter passes.
CheckParamNilPasses(parameter, paramType) ==
    IF paramType # NoType /\ TypeOf(parameter) # NoType
       /\ ~AssignableTo(TypeOf(parameter), paramType)
    THEN "ups: param does not match param parameter type"
    ELSE ""

\* ups.go:252-254.  reflect.TypeOf(nil) is the nil Type, and the method
\* call on it is a nil dereference: a run-time panic.
CheckParam(parameter, paramType) ==
    CASE paramType = NoType -> ""
      [] TypeOf(parameter) = NoType -> "runtime error: invalid memory address or nil pointer dereference"
      [] ~AssignableTo(TypeOf(parameter), paramType) ->
             "ups: param does not match param parameter type"
      [] OTHER -> ""

\* ups.go:192-261: the checks in the order of the code; the first that
\* fails is the panic of the call.
UPSWithParameterAndConfig(handler, parameter, config) ==
    LET reg == Registration(handler, parameter, config)
        in == CheckIn(handler)
        failed(msg) == [reg EXCEPT !.call = "panicked", !.panic = msg]
    IN  CASE CheckOut(handler) # "" -> failed(CheckOut(handler))
          [] in.panic # "" -> failed(in.panic)
          [] CheckReq(in.reqType) # "" -> failed(CheckReq(in.reqType))
          [] CheckParam(parameter, in.paramType) # "" ->
                 failed(CheckParam(parameter, in.paramType))
          [] OTHER -> [reg EXCEPT !.call = "returned", !.handlerType = in.handlerType,
                                  !.reqType = in.reqType]

\* ups.go:116-118, 140-142, 166-168.
UPS(handler) == UPSWithParameterAndConfig(handler, NilParameter, DefaultConfig)
UPSWithConfig(handler, config) == UPSWithParameterAndConfig(handler, NilParameter, config)
UPSWithParameter(handler, parameter) ==
    UPSWithParameterAndConfig(handler, parameter, DefaultConfig)

\* The handlers the package's test builds: handler, handlerContext,
\* handlerRequest, handlerParam, handlerContextParam, handlerRequestParam,
\* handlerError and handlerNoJSON.
TestParameter == [type |-> "int", val |-> "1"]

handlerError == UPS(FuncType(<<"*HelloRequest">>, <<"*HelloResponse", "error">>))

UpsHandlers ==
    { UPS(FuncType(<<"*HelloRequest">>, <<"*HelloResponse">>)),
      UPS(FuncType(<<"context.Context", "*HelloRequest">>, <<"*HelloResponse">>)),
      UPS(FuncType(<<"*http.Request", "*HelloRequest">>, <<"*HelloResponse">>)),
      UPSWithParameter(FuncType(<<"int", "*HelloRequest">>, <<"*HelloResponse">>), TestParameter),
      UPSWithParameter(FuncType(<<"context.Context", "int", "*HelloRequest">>,
                                <<"*HelloResponse">>), TestParameter),
      UPSWithParameter(FuncType(<<"*http.Request", "int", "*HelloRequest">>,
                                <<"*HelloResponse">>), TestParameter),
      handlerError,
      UPSWithConfig(FuncType(<<"*http.Request", "*HelloRequest">>, <<"*HelloResponse">>),
                    Config(FALSE)) }

\* One entry of the call history: the call, its argument and whether it
\* reads or writes the pooled message arg.
Ev(e, a, acc) == [ev |-> e, a |-> a, acc |-> acc]

\* ----------------------------------------------------------- control flow
\* Faulty variant: the method check lets every method through.
MethodAllowedAny(method) == TRUE

\* if r.Method != http.MethodPost
MethodAllowed(method) == method = MethodPost

\* Faulty variant: the StatusCoder of the error is not consulted.
ErrorStatusAlways500(err) == StatusInternalServerError

\* The status of a non-nil error returned by the handler.
ErrorStatus(err) ==
    IF err.coder THEN err.code ELSE StatusInternalServerError

\* The steps of ServeHTTP after the prologue, in program order: the pool
\* Get (which registers the deferred release), decode, the handler call,
\* encode; then the deferred calls, last registered first: the release and
\* the recover; then the response and the end hook.
\* Faulty variant: the release is not deferred but called once the handler returned.
StepsReleaseEarly ==
    << "acquire", "decode", "invoke", "release", "encode", "recover",
       "respond", "end", "done" >>

\* Faulty variant: the end-of-request hook is called before the response is
\* sent.
StepsEndEarly ==
    << "acquire", "decode", "invoke", "encode", "release", "recover",
       "end", "respond", "done" >>

Steps ==
    << "acquire", "decode", "invoke", "encode", "release", "recover",
       "respond", "end", "done" >>

StepIndex(step) == CHOOSE i \in DOMAIN Steps : Steps[i] = step

\* Falling off the end of a step.
After(step) == Steps[StepIndex(step) + 1]

\* Faulty variant: the release is not deferred, a return or a panic skips it.
UnwindSkipsRelease(step) == "recover"

\* A return or a panic inside the function literal runs the deferred calls
\* registered so far: the release once arg is got, and the recover.
Unwind(step) ==
    IF step # "start" /\ StepIndex(step) < StepIndex("release")
    THEN "release"
    ELSE "recover"

\* Faulty variant: the return after the 415 of the negotiation is missing.
ReturnsButReject(outcome) == outcome \notin {"ok", "reject"}

\* The prologue returns on every outcome but "ok".
Returns(outcome) == outcome # "ok"

\* Faulty variant: the method check comes first, the start hook only for
\* a POST.
StartHookAfterCheck(r) ==
    IF r.method = MethodPost THEN <<Ev("logStartRequest", r.method, FALSE)>> ELSE <<>>

\* ups.go:284: the start-of-request hook, the first statement of the
\* function literal.
StartHook(r) == <<Ev("logStartRequest", r.method, FALSE)>>

\* ups.go:284-317: start hook, method check, body read, content negotiation.
Prologue(r, jsonMarshaler) ==
    LET start == StartHook(r)
        neg == Negotiate(r.header, jsonMarshaler)
    IN  IF ~MethodAllowed(r.method)
        THEN [outcome |-> "method", status |-> StatusMethodNotAllowed, json |-> FALSE,
              events |-> start]
        ELSE IF r.readErr
        THEN [outcome |-> "read", status |-> StatusInternalServerError, json |-> FALSE,
              events |-> start \o <<Ev("ReadFrom", "err", FALSE), Ev("logError", "req.ReadFrom", FALSE)>>]
        ELSE IF neg.fmt = "reject"
        THEN [outcome |-> "reject", status |-> StatusUnsupportedMediaType, json |-> FALSE,
              events |-> start \o <<Ev("ReadFrom", "ok", FALSE)>>
                        \o (IF neg.logError THEN <<Ev("logError", "mime.ParseMediaType", FALSE)>> ELSE <<>>)]
        ELSE [outcome |-> "ok", status |-> StatusOK, json |-> (neg.fmt = "json"),
              events |-> start \o <<Ev("ReadFrom", "ok", FALSE)>>]

\* Faulty variant: Get leaves the instance it returns in the pool.
PoolTakeLeaves(pl, id) == pl

\* sync.Pool: Get removes the instance it returns; Put adds one.
PoolTake(pl, id) == pl \ {id}
PoolPut(pl, id) == pl \cup {id}

\* requestObjectPool.New: reflect.New(reqType.Elem()), a zero value.  The
\* new instance gets the least unused name (0: none is left).
NewMsg == EmptyMsg

\* reflect.Type.Elem is defined for the pointer types (and for arrays,
\* chans, maps and slices, of which the model has none); for every other
\* kind, an interface type included, it panics.
PointerTypes == {"*HelloRequest", "*HelloResponse", "*http.Request"}
ElemPanics(t) == t \notin PointerTypes

NewId(used) ==
    IF InstIds \ used = {} THEN 0
    ELSE CHOOSE i \in InstIds \ used : \A j \in InstIds \ used : i <= j

\* The values ServeHTTP has at hand for the argument list: ctx, r and the
\* pooled message with its content.
CtxValue == [type |-> "context.Context", val |-> "r.Context()"]
RequestValue == [type |-> "*http.Request", val |-> "r"]
MsgValue(m) == [type |-> "*HelloRequest", val |-> m]

\* Faulty variant: the bound parameter is put first.
ArgsParameterFirst(handlerType, ctx, r, parameter, msg) ==
    CASE handlerType = messageHandlerType -> <<msg>>
      [] handlerType = contextHandlerType -> <<ctx, msg>>
      [] handlerType = requestHandlerType -> <<r, msg>>
      [] handlerType = paramHandlerType -> <<parameter, msg>>
      [] handlerType = contextParamHandlerType -> <<parameter, ctx, msg>>
      [] OTHER -> <<parameter, r, msg>>

\* The argument list of handler.Call for each handlerType.
Args(handlerType, ctx, r, parameter, msg) ==
    CASE handlerType = messageHandlerType -> <<msg>>
      [] handlerType = contextHandlerType -> <<ctx, msg>>
      [] handlerType = requestHandlerType -> <<r, msg>>
      [] handlerType = paramHandlerType -> <<parameter, msg>>
      [] handlerType = contextParamHandlerType -> <<ctx, parameter, msg>>
      [] OTHER -> <<r, parameter, msg>>

\* Faulty variant: the wrappers call the hook without looking at it.
HookRunsAlways(configured) == TRUE

\* ups.go:407-465: each wrapper calls its hook only if the hook is not nil.
HookRuns(configured) == configured

\* Calling a nil func value is a run-time panic.
NilCall(configured) == HookRuns(configured) /\ ~configured

\* recover() in the deferred func: the value it returns is what the handler
\* panicked with; a nil value is not told apart from no panic.
Recovered(pv) == pv \notin {"none", "nil"}

\* ----------------------------------------------------------- surroundings
\* One goroutine serving any request, any handler behaviour, any writer.
FullEnv == [procs |-> {1}, traffic |-> "any", handler |-> "any", writer |-> "any", counter |-> FALSE]

\* All goroutines serving at once: JSON requests with and without the
\* field; a handler that answers, or panics after writing to the request
\* message; a writer that takes every byte (httptest.ResponseRecorder).
ConcRequests ==
    { [method |-> MethodPost, header |-> Header("application/json", FALSE, "none"),
       body |-> b, readErr |-> FALSE] : b \in {<<"{", "a", "}">>, <<"{", "}">>} }

ConcOutcomes ==
    { Outcome("return", "fresh", NoErr, "none", FALSE),
      Outcome("panic", "none", NoErr, "boom", TRUE) }

ConcEnv == [procs |-> Procs, traffic |-> "conc", handler |-> "conc", writer |-> "recorder", counter |-> FALSE]

\* A handler just built, tried with a binary POST and a GET; the func
\* answers.
RegRequests ==
    { [method |-> MethodPost, header |-> Header("application/octet-stream", FALSE, "none"),
       body |-> <<"0a", "a">>, readErr |-> FALSE],
      [method |-> MethodGet, header |-> Header("", FALSE, "none"),
       body |-> <<>>, readErr |-> FALSE] }

RegOutcomes == { Outcome("return", "fresh", NoErr, "none", FALSE) }

RegEnv == [procs |-> {1}, traffic |-> "reg", handler |-> "reg", writer |-> "recorder", counter |-> FALSE]

EnvRequests(e) ==
    CASE e.traffic = "any" -> Requests
      [] e.traffic = "conc" -> ConcRequests
      [] OTHER -> RegRequests

EnvOutcomes(e, numOut) ==
    CASE e.handler = "any" -> HandlerOutcomes(numOut)
      [] e.handler = "conc" -> HandlerOutcomes(numOut) \cap ConcOutcomes
      [] OTHER -> HandlerOutcomes(numOut) \cap RegOutcomes

\* ------------------------------------------------- the request identifier
\* The earlier version of the package (part_000:64, 176-179) numbers the
\* requests: contextID is a package-level uint64 and ServeHTTP begins with
\* ctxID := atomic.AddUint64(&contextID, 1).  The counter is modelled
\* CounterBits wide, so that it wraps within a run.
Modulus == 2 ^ CounterBits

\* Faulty variant: the increment is lost, the call takes the old value.
AddUint64Lost(counter, delta) == counter

\* atomic.AddUint64: the new value, in one step.
AddUint64(counter, delta) == (counter + delta) % Modulus

\* The counter when the first request arrives: fresh, or about to wrap.
FirstCounters == {0, Modulus - 2}

\* Two goroutines serving the version with the counter.
IDEnv == [procs |-> Procs, traffic |-> "reg", handler |-> "conc", writer |-> "recorder",
          counter |-> TRUE]

\* ------------------------------------------------------------------- Init
Idle ==
    /\ pool = {}
    /\ live = {}
    /\ inst = [i \in InstIds |-> EmptyMsg]
    /\ pc = [p \in Procs |-> "idle"]
    /\ req = [p \in Procs |-> NoReq]
    /\ json = [p \in Procs |-> FALSE]
    /\ arg = [p \in Procs |-> 0]
    /\ statusCode = [p \in Procs |-> StatusOK]
    /\ resp = [p \in Procs |-> <<>>]
    /\ ctype = [p \in Procs |-> ""]
    /\ hres = [p \in Procs |-> NoRes]
    /\ panicV = [p \in Procs |-> "none"]
    /\ written = [p \in Procs |-> <<>>]
    /\ log = [p \in Procs |-> <<>>]
    /\ panicked = FALSE
    /\ contextID \in (IF env.counter THEN FirstCounters ELSE {0})
    /\ issued = <<>>
    /\ ctxID = [p \in Procs |-> 0]

Init ==
    /\ env = FullEnv
    /\ ups \in UpsHandlers
    /\ Idle

InitConc ==
    /\ env = ConcEnv
    /\ ups = handlerError
    /\ Idle

\* Before construction: a call of UPSWithParameterAndConfig with any func
\* type and any parameter is about to be made.
\* One goroutine, the requests of a handler just built, a func that answers
\* or panics, and a writer of one of three kinds.
LiveEnv(writer) == [procs |-> {1}, traffic |-> "reg", handler |-> "conc", writer |-> writer, counter |-> FALSE]

InitID ==
    /\ env = IDEnv
    /\ ups = UPS(FuncType(<<"context.Context", "*HelloRequest">>, <<"*HelloResponse">>))
    /\ Idle

InitLive ==
    /\ env \in { LiveEnv(w) : w \in {"recorder", "any", "stalled"} }
    /\ ups = handlerError
    /\ Idle

\* A two-result handler under every Config with JSONMarshaler set: hooks
\* set or nil, formatter set or nil.
InitConfig ==
    /\ env = FullEnv
    /\ ups \in { UPSWithConfig(FuncType(<<"*HelloRequest">>, <<"*HelloResponse", "error">>),
                                ConfigWith(TRUE, h, f)) : h \in BOOLEAN, f \in BOOLEAN }
    /\ Idle

\* Funcs whose message parameter is declared as the interface
\* proto.Message itself.
InterfaceFuncTypes ==
    { FuncType(in, out) :
        in \in { <<"proto.Message">>, <<"context.Context", "proto.Message">>,
                 <<"int", "proto.Message">>, <<"*http.Request", "int", "proto.Message">> },
        out \in { <<"*HelloResponse">>, <<"*HelloResponse", "error">> } }

InitReg ==
    /\ env = RegEnv
    /\ ups \in { Registration(f, v, DefaultConfig) :
                    f \in FuncTypes \cup InterfaceFuncTypes, v \in Parameters }
    /\ Idle

\* ---------------------------------------------------------------- actions
\* A request arrives and ServeHTTP runs up to the pool (ups.go:272-317).
\* The version with the counter first takes its identifier
\* (part_000:177-178).
Start(p) ==
    /\ pc[p] = "idle"
    /\ p \in env.procs
    /\ ups.call = "returned"
    /\ \E r \in EnvRequests(env) :
         LET pro == Prologue(r, ups.JSONMarshaler)
         IN  /\ req' = [req EXCEPT ![p] = r]
             /\ IF NilCall(ups.hooks)
                THEN /\ log' = [log EXCEPT ![p] = StartHook(r)]
                     /\ panicV' = [panicV EXCEPT ![p] = "nil func call"]
                     /\ pc' = [pc EXCEPT ![p] = Unwind("start")]
                     /\ UNCHANGED << statusCode, json >>
                ELSE /\ statusCode' = [statusCode EXCEPT ![p] = pro.status]
                     /\ json' = [json EXCEPT ![p] = pro.json]
                     /\ log' = [log EXCEPT ![p] = pro.events]
                     /\ pc' = [pc EXCEPT ![p] =
                                 IF Returns(pro.outcome) THEN Unwind("start") ELSE Steps[1]]
                     /\ UNCHANGED panicV
    /\ IF env.counter
       THEN /\ Len(issued) < MaxRequests
            /\ contextID' = AddUint64(contextID, 1)
            /\ issued' = Append(issued, contextID')
            /\ ctxID' = [ctxID EXCEPT ![p] = contextID']
       ELSE UNCHANGED << contextID, issued, ctxID >>
    /\ UNCHANGED << env, ups, pool, live, inst, arg, resp, ctype, hres, written, panicked >>

\* ups.go:319-323: requestObjectPool.Get() hands out a pooled instance or a
\* new one (the pool may be empty, or may pass over what it holds); the
\* release is deferred.  New (ups.go:256-258) panics inside Get when the
\* recorded request type has no Elem; nothing is deferred yet.
Acquire(p) ==
    /\ pc[p] = "acquire"
    /\ \E id \in InstIds :
         LET got == /\ arg' = [arg EXCEPT ![p] = id]
                    /\ log' = [log EXCEPT ![p] = @ \o
                          <<Ev("Get", [msg |-> inst'[id], pooled |-> id \in pool], TRUE)>>]
                    /\ pc' = [pc EXCEPT ![p] = After("acquire")]
                    /\ UNCHANGED panicV
         IN  \/ /\ id \in pool
                /\ pool' = PoolTake(pool, id)
                /\ UNCHANGED << live, inst >>
                /\ got
             \/ /\ id = NewId(live)
                /\ IF ElemPanics(ups.reqType)
                   THEN /\ log' = [log EXCEPT ![p] = @ \o
                                     <<Ev("New", "reflect: Elem of invalid type", FALSE)>>]
                        /\ panicV' = [panicV EXCEPT ![p] = "reflect: Elem of invalid type"]
                        /\ pc' = [pc EXCEPT ![p] = Unwind("start")]
                        /\ UNCHANGED << pool, live, inst, arg >>
                   ELSE /\ live' = live \cup {id}
                        /\ inst' = [inst EXCEPT ![id] = NewMsg]
                        /\ UNCHANGED pool
                        /\ got
    /\ UNCHANGED << contextID, issued, ctxID, env, ups, req, json, statusCode, resp, ctype, hres, written, panicked >>

\* Faulty variant: the raw-request hook is called after the decode, and
\* only when it succeeded.
DecodeStepsRawLate(raw, unmarshal, failed) ==
    IF failed THEN <<unmarshal>> ELSE <<unmarshal, raw>>

\* ups.go:325-326, 332-333: the raw-request hook, then the decode.
DecodeSteps(raw, unmarshal, failed) == <<raw, unmarshal>>

\* ups.go:324-339: the raw-request hook, the decode into the pooled
\* instance, the decoded-request hook.
Decode(p) ==
    /\ pc[p] = "decode"
    /\ LET id == arg[p]
           dec == Unmarshal(json[p], req[p].body, inst[id])
           raw == Ev(IF json[p] THEN "logRequestJSON" ELSE "logRequestBytes", req[p].body, FALSE)
           um == Ev("Unmarshal", dec.err, TRUE)
       IN  /\ inst' = [inst EXCEPT ![id] = dec.msg]
           /\ IF dec.err
              THEN /\ log' = [log EXCEPT ![p] = @ \o
                         DecodeSteps(raw, um, TRUE) \o
                         <<Ev("logError", IF json[p] THEN "jsonpb.Unmarshal" ELSE "proto.Unmarshal", FALSE)>>]
                   /\ statusCode' = [statusCode EXCEPT ![p] = StatusInternalServerError]
                   /\ pc' = [pc EXCEPT ![p] = Unwind("decode")]
              ELSE /\ log' = [log EXCEPT ![p] = @ \o
                         DecodeSteps(raw, um, FALSE) \o <<Ev("logRequestMessage", dec.msg, TRUE)>>]
                   /\ UNCHANGED statusCode
                   /\ pc' = [pc EXCEPT ![p] = After("decode")]
    /\ UNCHANGED << contextID, issued, ctxID, env, ups, pool, live, req, json, arg, resp, ctype, hres, panicV, written, panicked >>

\* Faulty variant: the return after the error status is missing.
OnErrorGoesOn == After("invoke")

\* ups.go:364: the return that follows the status of a handler error.
OnError == Unwind("invoke")

\* ups.go:341-366: the argument list, handler.Call, the error result.  A
\* nil interface result panics in the type assertion of line 366.
Invoke(p) ==
    /\ pc[p] = "invoke"
    /\ \E o \in EnvOutcomes(env, ups.numOut) :
         LET id == arg[p]
             seen == inst[id]
             args == Args(ups.handlerType, CtxValue, RequestValue, ups.parameter, MsgValue(seen))
             call == Ev("Call", [args |-> args, msg |-> seen, outcome |-> o], TRUE)
         IN  /\ log' = [log EXCEPT ![p] = @ \o <<call>>]
             /\ inst' = [inst EXCEPT ![id] = IF o.mutate THEN "h" ELSE @]
             /\ IF o.kind = "panic" \/ (o.err.isNil /\ o.result = "nilif")
                THEN /\ panicV' = [panicV EXCEPT ![p] =
                                      IF o.kind = "panic" THEN o.pv ELSE "runtime.Error"]
                     /\ panicked' = TRUE
                     /\ pc' = [pc EXCEPT ![p] = Unwind("invoke")]
                     /\ UNCHANGED << statusCode, hres >>
                ELSE IF ups.numOut > 1 /\ ~o.err.isNil
                THEN /\ statusCode' = [statusCode EXCEPT ![p] = ErrorStatus(o.err)]
                     /\ hres' = [hres EXCEPT ![p] = [result |-> o.result, text |-> Greet(seen)]]
                     /\ pc' = [pc EXCEPT ![p] = OnError]
                     /\ UNCHANGED << panicV, panicked >>
                ELSE /\ hres' = [hres EXCEPT ![p] = [result |-> o.result, text |-> Greet(seen)]]
                     /\ pc' = [pc EXCEPT ![p] = After("invoke")]
                     /\ UNCHANGED << statusCode, panicV, panicked >>
    /\ UNCHANGED << contextID, issued, ctxID, env, ups, pool, live, req, json, arg, resp, ctype, written >>

\* Faulty variant: a marshal error leaves the status as it is.
OnMarshalErrorKeeps(status) == status

\* ups.go:372, 381: the status after a marshal error.
OnMarshalError(status) == StatusInternalServerError

\* ups.go:367-387: the response hook, the encoding in the negotiated
\* format, the raw-response hook, the Content-Type of the response.  A
\* typed nil pointer does not marshal.
Encode(p) ==
    /\ pc[p] = "encode"
    /\ LET id == arg[p]
           same == hres[p].result = "same"
           acc == same
           val == IF same THEN inst[id] ELSE hres[p].text
           out == Marshal(json[p], val)
           hook == Ev("logResponseMessage", hres[p].result, acc)
       IN  IF hres[p].result = "nilptr"
           THEN /\ log' = [log EXCEPT ![p] = @ \o
                      <<hook, Ev("Marshal", "err", FALSE),
                        Ev("logError", IF json[p] THEN "JSONMarshaler.MarshalToString" ELSE "proto.Marshal", FALSE)>>]
                /\ statusCode' = [statusCode EXCEPT ![p] = OnMarshalError(@)]
                /\ UNCHANGED << resp, ctype >>
           ELSE /\ log' = [log EXCEPT ![p] = @ \o
                      <<hook, Ev("Marshal", "ok", acc),
                        Ev(IF json[p] THEN "logResponseJSON" ELSE "logResponseBytes", out, FALSE),
                        Ev("Header.Set", ContentTypeOf(json[p]), FALSE)>>]
                /\ resp' = [resp EXCEPT ![p] = out]
                /\ ctype' = [ctype EXCEPT ![p] = ContentTypeOf(json[p])]
                /\ UNCHANGED statusCode
    /\ pc' = [pc EXCEPT ![p] = After("encode")]
    /\ UNCHANGED << contextID, issued, ctxID, env, ups, pool, live, inst, req, json, arg, hres, panicV, written, panicked >>

\* ups.go:320-323, the deferred release: Reset, then Put.
Release(p) ==
    /\ pc[p] = "release"
    /\ LET id == arg[p]
       IN  /\ inst' = [inst EXCEPT ![id] = Reset(@)]
           /\ pool' = PoolPut(pool, id)
           /\ log' = [log EXCEPT ![p] = @ \o <<Ev("Reset", "", TRUE), Ev("Put", "", FALSE)>>]
    /\ pc' = [pc EXCEPT ![p] = After("release")]
    /\ UNCHANGED << contextID, issued, ctxID, env, ups, live, req, json, arg, statusCode, resp, ctype, hres, panicV, written, panicked >>

\* ups.go:277-282, the deferred recover; with it the function literal is
\* left and its locals json, arg and result are gone.  A panic inside the
\* deferred func itself is recovered by nobody: the call is over, nothing
\* is sent.
Recover(p) ==
    /\ pc[p] = "recover"
    /\ IF Recovered(panicV[p])
       THEN /\ log' = [log EXCEPT ![p] = @ \o <<Ev("logPanic", panicV[p], FALSE)>>]
            /\ IF NilCall(ups.hooks)
               THEN /\ pc' = [pc EXCEPT ![p] = "crashed"]
                    /\ UNCHANGED statusCode
               ELSE /\ statusCode' = [statusCode EXCEPT ![p] = StatusInternalServerError]
                    /\ pc' = [pc EXCEPT ![p] = After("recover")]
       ELSE /\ pc' = [pc EXCEPT ![p] = After("recover")]
            /\ UNCHANGED << log, statusCode >>
    /\ panicV' = [panicV EXCEPT ![p] = "none"]
    /\ json' = [json EXCEPT ![p] = FALSE]
    /\ arg' = [arg EXCEPT ![p] = 0]
    /\ hres' = [hres EXCEPT ![p] = NoRes]
    /\ UNCHANGED << contextID, issued, ctxID, env, ups, pool, live, inst, req, resp, ctype, written, panicked >>

\* Faulty variant: the bytes a partial write accepted are not dropped.
RemainingAll(buf, n) == buf

\* ups.go:398: resp = resp[n:].
Remaining(buf, n) == SubSeq(buf, n + 1, Len(buf))

\* ups.go:390-400: one w.Write(resp) of the write loop.  The writer accepts
\* n bytes and may report an error; the recorder of the tests takes all
\* of them, a stalled writer takes none and reports no error.
Write(p) ==
    /\ pc[p] = "respond"
    /\ statusCode[p] = StatusOK
    /\ \E n \in 0 .. Len(resp[p]), err \in BOOLEAN :
         /\ env.writer = "recorder" => (n = Len(resp[p]) /\ ~err)
         /\ env.writer = "stalled" => (n = 0 /\ ~err)
         /\ written' = [written EXCEPT ![p] = @ \o SubSeq(resp[p], 1, n)]
         /\ IF err
            THEN /\ log' = [log EXCEPT ![p] = @ \o <<Ev("logError", "w.Write", FALSE)>>]
                 /\ pc' = [pc EXCEPT ![p] = After("respond")]
                 /\ UNCHANGED resp
            ELSE IF n >= Len(resp[p])
            THEN /\ pc' = [pc EXCEPT ![p] = After("respond")]
                 /\ UNCHANGED << resp, log >>
            ELSE /\ resp' = [resp EXCEPT ![p] = Remaining(@, n)]
                 /\ UNCHANGED << pc, log >>
    /\ UNCHANGED << contextID, issued, ctxID, env, ups, pool, live, inst, req, json, arg, statusCode, ctype, hres, panicV, panicked >>

\* The text a configured formatter gives for a status code.
FormatterText(code) == <<"error", code>>

\* ups.go:467-473: the formatter's text, the empty string without one.
errorResponse(formatter, code) == IF formatter THEN FormatterText(code) ELSE <<>>

\* ups.go:401-403: http.Error with the error body and the status; it sets
\* the Content-Type of the response to text/plain and prints the text and
\* a newline as the body.
HttpError(p) ==
    /\ pc[p] = "respond"
    /\ statusCode[p] # StatusOK
    /\ log' = [log EXCEPT ![p] = @
                  \o (IF ups.ErrorResponse
                      THEN <<Ev("ErrorResponse", statusCode[p], FALSE)>> ELSE <<>>)
                  \o <<Ev("http.Error", statusCode[p], FALSE),
                       Ev("Fprintln", errorResponse(ups.ErrorResponse, statusCode[p]) \o <<"\n">>,
                          FALSE)>>]
    /\ ctype' = [ctype EXCEPT ![p] = "text/plain; charset=utf-8"]
    /\ pc' = [pc EXCEPT ![p] = After("respond")]
    /\ UNCHANGED << contextID, issued, ctxID, env, ups, pool, live, inst, req, json, arg, statusCode, resp, hres,
                    panicV, written, panicked >>

\* ups.go:404: the end-of-request hook.
End(p) ==
    /\ pc[p] = "end"
    /\ log' = [log EXCEPT ![p] = @ \o <<Ev("logEndRequest", [method |-> req[p].method, status |-> statusCode[p]], FALSE)>>]
    /\ pc' = [pc EXCEPT ![p] = After("end")]
    /\ UNCHANGED << contextID, issued, ctxID, env, ups, pool, live, inst, req, json, arg, statusCode, resp, ctype, hres,
                    panicV, written, panicked >>

\* ServeHTTP returns; the goroutine is free for the next request.
Return(p) ==
    /\ pc[p] = "done"
    /\ pc' = [pc EXCEPT ![p] = "idle"]
    /\ req' = [req EXCEPT ![p] = NoReq]
    /\ json' = [json EXCEPT ![p] = FALSE]
    /\ arg' = [arg EXCEPT ![p] = 0]
    /\ statusCode' = [statusCode EXCEPT ![p] = StatusOK]
    /\ resp' = [resp EXCEPT ![p] = <<>>]
    /\ ctype' = [ctype EXCEPT ![p] = ""]
    /\ hres' = [hres EXCEPT ![p] = NoRes]
    /\ written' = [written EXCEPT ![p] = <<>>]
    /\ log' = [log EXCEPT ![p] = <<>>]
    /\ ctxID' = [ctxID EXCEPT ![p] = 0]
    /\ UNCHANGED << contextID, issued, env, ups, pool, live, inst, panicV, panicked >>

\* A garbage collection empties the sync.Pool; what it held is freed.
PoolGC ==
    /\ pool # {}
    /\ pool' = {}
    /\ live' = live \ pool
    /\ inst' = [i \in InstIds |-> IF i \in pool THEN EmptyMsg ELSE inst[i]]
    /\ UNCHANGED << contextID, issued, ctxID, env, ups, pc, req, json, arg, statusCode, resp, ctype, hres, panicV,
                    written, log, panicked >>

Next ==
    \/ \E p \in Procs :
         \/ Start(p)
         \/ Acquire(p)
         \/ Decode(p)
         \/ Invoke(p)
         \/ Encode(p)
         \/ Release(p)
         \/ Recover(p)
         \/ Write(p)
         \/ HttpError(p)
         \/ End(p)
         \/ Return(p)
    \/ PoolGC

Spec == Init /\ [][Next]_vars

\* ups.go:192-261: the constructor runs; it returns the upsHandler or
\* panics.
Construct ==
    /\ ups.call = "pending"
    /\ ups' = UPSWithParameterAndConfig(ups.handler, ups.parameter,
                                         ConfigWith(ups.JSONMarshaler, ups.hooks, ups.ErrorResponse))
    /\ UNCHANGED << contextID, issued, ctxID, env, pool, live, inst, pc, req, json, arg, statusCode, resp, ctype,
                    hres, panicV, written, log, panicked >>

NextReg == Construct \/ Next

SpecReg == InitReg /\ [][NextReg]_vars

SpecConc == InitConc /\ [][Next]_vars

SpecConfig == InitConfig /\ [][Next]_vars

SpecID == InitID /\ [][Next]_vars

\* A goroutine that serves a request keeps running: every step of
\* ServeHTTP that can change something is eventually taken.  Requests need
\* not arrive.
Serve(p) ==
    \/ Acquire(p) \/ Decode(p) \/ Invoke(p) \/ Encode(p) \/ Release(p) \/ Recover(p)
    \/ Write(p) \/ HttpError(p) \/ End(p) \/ Return(p)

SpecLive == InitLive /\ [][Next]_vars /\ \A p \in Procs : WF_vars(Serve(p))

\* ============================================================== properties
\* Reading the call history of a ServeHTTP call.
EvIdx(p, e) == { i \in DOMAIN log[p] : log[p][i].ev = e }
Has(p, e) == EvIdx(p, e) # {}
Count(p, e) == Cardinality(EvIdx(p, e))
FirstIdx(p, e) == CHOOSE i \in EvIdx(p, e) : \A j \in EvIdx(p, e) : i <= j
TheArg(p, e) == log[p][FirstIdx(p, e)].a

InFlight(p) == pc[p] # "idle"
Done(p) == pc[p] = "done"

\* The status the end-of-request hook reports, and the one on the wire:
\* that of http.Error, or the 200 implied by writing the body.
EndStatus(p) == TheArg(p, "logEndRequest").status
SentStatus(p) == IF Has(p, "http.Error") THEN TheArg(p, "http.Error") ELSE 200

\* What the handler did in this call.
Invoked(p) == Has(p, "Call")
HandlerOutcome(p) == TheArg(p, "Call").outcome
MarshalOk(p) == Has(p, "Marshal") /\ TheArg(p, "Marshal") = "ok"

\* C1: a non-nil handler error gives the status of its StatusCode() when it
\* is a StatusCoder and 500 otherwise; a nil error (or no error return)
\* followed by a successful encoding gives 200.
C1_HandlerErrorStatus ==
    \A p \in Procs :
        (Done(p) /\ Invoked(p) /\ HandlerOutcome(p).kind = "return") =>
            LET err == HandlerOutcome(p).err
            IN  /\ (~err.isNil /\ err.coder) => EndStatus(p) = err.code
                /\ (~err.isNil /\ ~err.coder) => EndStatus(p) = 500
                /\ (err.isNil /\ MarshalOk(p)) => EndStatus(p) = 200
                /\ SentStatus(p) = EndStatus(p)

C1_Witness ==
    \E p \in Procs :
        /\ Done(p) /\ Invoked(p)
        /\ HandlerOutcome(p).err = CoderErr(418)
        /\ EndStatus(p) = 418

\* C2: a request whose method is not POST ends with 405; its body is not
\* read, no pooled message is got, nothing is decoded and the handler is not
\* called.
C2_NonPostIs405 ==
    \A p \in Procs :
        (InFlight(p) /\ req[p].method # "POST") =>
            /\ statusCode[p] = 405
            /\ ~Has(p, "ReadFrom") /\ ~Has(p, "Get")
            /\ ~Has(p, "Unmarshal") /\ ~Has(p, "Call")
            /\ Done(p) => (EndStatus(p) = 405 /\ SentStatus(p) = 405)

C2_Witness ==
    \E p \in Procs : Done(p) /\ req[p].method = "GET" /\ EndStatus(p) = 405

\* The negotiation is reached by a POST whose body was read.
Negotiated(p) == InFlight(p) /\ req[p].method = "POST" /\ ~req[p].readErr

\* The format the media type of a header stands for: "text", "binary" or
\* "reject".
Expected(h, jsonMarshaler) ==
    CASE h.mt \in {"", "application/"} \/ h.params = "bad" -> "reject"
      [] h.mt = "application/json" -> IF jsonMarshaler THEN "text" ELSE "reject"
      [] h.mt \in {"application/octet-stream", "application/x-protobuf"} -> "binary"
      [] OTHER -> "reject"

\* The format the call went on with.
Chosen(p) ==
    CASE pc[p] \in {"acquire", "decode", "invoke", "encode", "release"}
           \/ (pc[p] = "recover" /\ Has(p, "Get")) ->
             IF json[p] THEN "text" ELSE "binary"
      [] Has(p, "logRequestJSON") -> "text"
      [] Has(p, "logRequestBytes") -> "binary"
      [] OTHER -> "reject"

\* C3: the negotiation rejects an absent or unparsable Content-Type with
\* 415, takes application/json as text when JSONMarshaler is set and
\* rejects it otherwise, takes application/octet-stream and
\* application/x-protobuf as binary, and rejects every other media type.
C3_Negotiation ==
    \A p \in Procs :
        Negotiated(p) =>
            /\ Chosen(p) = Expected(req[p].header, ups.JSONMarshaler)
            /\ Chosen(p) = "reject" => statusCode[p] = 415

C3_Witness ==
    \E p \in Procs :
        /\ Done(p) /\ Negotiated(p)
        /\ req[p].header.mt = "application/json" /\ ~ups.JSONMarshaler
        /\ EndStatus(p) = 415

\* C4: a POST whose media type the negotiation rejects ends with 415 and
\* is never decoded: no pooled message is got, neither request hook fires,
\* the handler is not called.
C4_RejectedNotDecoded ==
    \A p \in Procs :
        (Negotiated(p) /\ Expected(req[p].header, ups.JSONMarshaler) = "reject") =>
            /\ ~Has(p, "Get")
            /\ ~Has(p, "logRequestJSON") /\ ~Has(p, "logRequestBytes")
            /\ ~Has(p, "logRequestMessage")
            /\ ~Has(p, "Unmarshal") /\ ~Has(p, "Call")
            /\ Done(p) => (EndStatus(p) = 415 /\ SentStatus(p) = 415)

C4_Witness ==
    \E p \in Procs :
        /\ Done(p) /\ Negotiated(p)
        /\ req[p].header.mt = "text/plain"
        /\ Has(p, "ReadFrom") /\ ~Has(p, "Get")
        /\ EndStatus(p) = 415

\* C5: a panic of the handler stays inside ServeHTTP: the panic hook is
\* called exactly once with the panic value, the status is 500, no byte of
\* a response is written and the end hook reports 500.
C5_PanicContained ==
    \A p \in Procs :
        (Done(p) /\ Invoked(p) /\ HandlerOutcome(p).kind = "panic") =>
            /\ Count(p, "logPanic") = 1
            /\ TheArg(p, "logPanic") = HandlerOutcome(p).pv
            /\ EndStatus(p) = 500 /\ SentStatus(p) = 500
            /\ written[p] = <<>>

\* The message a body decodes to, and the bytes of the response a handler
\* that returns normally owes for it.
IsText(p) == Expected(req[p].header, ups.JSONMarshaler) = "text"

Decoded(p) == Unmarshal(IsText(p), req[p].body, EmptyMsg)

Owed(p) ==
    Marshal(IsText(p),
            IF HandlerOutcome(p).result = "same" THEN Decoded(p).msg ELSE Greet(Decoded(p).msg))

\* A request that is served normally when nothing went wrong before: it
\* is decodable, its handler returns a message and no error, the writer
\* reports no error.
Valid(p) ==
    /\ Negotiated(p) /\ Expected(req[p].header, ups.JSONMarshaler) # "reject"
    /\ ~Decoded(p).err
    /\ Invoked(p)
    /\ HandlerOutcome(p).kind = "return" /\ HandlerOutcome(p).err.isNil
    /\ HandlerOutcome(p).result \in {"fresh", "same"}
    /\ \A i \in EvIdx(p, "logError") : log[p][i].a # "w.Write"

\* C6: once a handler invocation has panicked, every later valid request
\* is still served normally: status 200 and the encoding of the handler's
\* answer to this request as the body.
C6_ServesAfterPanic ==
    \A p \in Procs :
        (panicked /\ Done(p) /\ Valid(p)) =>
            /\ EndStatus(p) = 200 /\ SentStatus(p) = 200
            /\ written[p] = Owed(p)

C6_Witness ==
    \E p \in Procs :
        /\ panicked /\ Done(p) /\ Valid(p)
        /\ TheArg(p, "Get").pooled
        /\ written[p] = <<"{", "Hello, !", "}">>

\* A call holds its instance from the Get to the Put.
Holding(p) == Count(p, "Get") > Count(p, "Put")

HandlerPanicked(p) == Invoked(p) /\ HandlerOutcome(p).kind = "panic"

\* C7: a call that got a pooled message puts it back exactly once, before
\* the response is written and before the end hook; the calls that end
\* with 405, 415 or a failed body read get none; the instances out of the
\* pool are those of the calls in flight.
C7_ReleasedOnce ==
    /\ \A p \in Procs :
          /\ Count(p, "Get") <= 1
          /\ Count(p, "Put") <= Count(p, "Get")
          /\ ( \/ pc[p] \in {"respond", "end", "done"}
               \/ written[p] # <<>>
               \/ Has(p, "http.Error")
               \/ Has(p, "logEndRequest") ) => Count(p, "Put") = Count(p, "Get")
          /\ ( InFlight(p) /\ ( \/ req[p].method # "POST"
                                \/ req[p].readErr
                                \/ Expected(req[p].header, ups.JSONMarshaler) = "reject" ) )
                => Count(p, "Get") = 0
          /\ (Done(p) /\ Has(p, "Unmarshal")) => Count(p, "Put") = 1
    /\ live \ pool = { arg[p] : p \in { q \in Procs : Holding(q) } }

C7_Witness ==
    \E p \in Procs :
        /\ Done(p) /\ HandlerPanicked(p)
        /\ Count(p, "Get") = 1 /\ Count(p, "Put") = 1
        /\ live # {} /\ live \ pool = {}

\* C8: a message got from the pool is empty, whatever earlier requests
\* did, and the message the handler is called with holds what the body of
\* this request decodes to and nothing else.
C8_AcquiredEmpty ==
    \A p \in Procs :
        /\ Has(p, "Get") => TheArg(p, "Get").msg = EmptyMsg
        /\ Invoked(p) => TheArg(p, "Call").msg = Decoded(p).msg

C8_Witness ==
    \E p \in Procs :
        /\ panicked /\ Invoked(p)
        /\ TheArg(p, "Get").pooled
        /\ IsText(p) /\ req[p].body = <<"{", "}">>
        /\ TheArg(p, "Call").msg = EmptyMsg

\* C9: no instance is held by two calls in flight at once, and none is in
\* the pool while a call holds it.
C9_ExclusiveInstance ==
    \A p \in Procs :
        Holding(p) =>
            /\ arg[p] \notin pool
            /\ \A q \in Procs \ {p} : Holding(q) => arg[q] # arg[p]

C9_Witness ==
    \E p \in Procs : \E q \in Procs \ {p} :
        /\ Holding(p) /\ Holding(q)
        /\ TheArg(p, "Get").pooled
        /\ pc[p] = "invoke" /\ pc[q] = "invoke"

\* C10: ServeHTTP does not touch the pooled message after the Put: the
\* decode, the hooks, the handler call and the encoding all come before the
\* Reset and the Put, also when the handler returns the request message as
\* its response, which is then encoded with the content the handler saw.
C10_NoUseAfterRelease ==
    \A p \in Procs :
        /\ \A i \in EvIdx(p, "Put") :
              /\ i > 1 /\ log[p][i - 1].ev = "Reset"
              /\ \A j \in DOMAIN log[p] : j > i => ~log[p][j].acc
        /\ (Invoked(p) /\ MarshalOk(p) /\ HandlerOutcome(p).result = "same") =>
              TheArg(p, IF IsText(p) THEN "logResponseJSON" ELSE "logResponseBytes") = Owed(p)

C10_Witness ==
    \E p \in Procs :
        /\ Done(p) /\ Invoked(p)
        /\ HandlerOutcome(p).result = "same"
        /\ Has(p, "Put")
        /\ EndStatus(p) = 200
        /\ written[p] = <<"0a", "a">>

\* ---------------------------------------------- construction and dispatch
\* The func and the parameter the constructor was called with.
Built == ups.call = "returned"
ConstructionPanicked == ups.call = "panicked"
InOf == ups.handler.in
OutOf == ups.handler.out

\* The documented shapes: the results, and the variant of the parameters
\* ("" when the parameter list is none of the six).
ValidOut ==
    \/ OutOf = <<"*HelloResponse">>
    \/ OutOf = <<"*HelloResponse", "error">>

IsMsg(t) == t \in {"*HelloRequest", "proto.Message"}
IsTransport(t) == t \in {"context.Context", "*http.Request"}

Variant ==
    CASE Len(InOf) = 1 /\ IsMsg(InOf[1]) -> messageHandlerType
      [] Len(InOf) = 2 /\ IsMsg(InOf[2]) ->
             ( CASE InOf[1] = "context.Context" -> contextHandlerType
                 [] InOf[1] = "*http.Request" -> requestHandlerType
                 [] OTHER -> paramHandlerType )
      [] Len(InOf) = 3 /\ IsMsg(InOf[3]) /\ InOf[1] = "context.Context" -> contextParamHandlerType
      [] Len(InOf) = 3 /\ IsMsg(InOf[3]) /\ InOf[1] = "*http.Request" -> requestParamHandlerType
      [] OTHER -> ""

BindsParameter ==
    Variant \in {paramHandlerType, contextParamHandlerType, requestParamHandlerType}

\* The declared type of the bound parameter: the last but one.
DeclaredParameterType == InOf[Len(InOf) - 1]

ParameterFits ==
    /\ ups.parameter # NilParameter
    /\ \/ ups.parameter.type = DeclaredParameterType
       \/ ups.parameter.type = "backgroundCtx" /\ DeclaredParameterType = "context.Context"

ExpectedArgs(p) ==
    (IF Len(InOf) > 1 /\ InOf[1] = "context.Context" /\ Variant # paramHandlerType
     THEN <<CtxValue>>
     ELSE IF Len(InOf) > 1 /\ InOf[1] = "*http.Request" /\ Variant # paramHandlerType
     THEN <<RequestValue>>
     ELSE <<>>)
    \o (IF BindsParameter THEN <<ups.parameter>> ELSE <<>>)
    \o <<MsgValue(Decoded(p).msg)>>

CallArgs(p) == TheArg(p, "Call").args

\* C12: the handler is called with exactly the arguments of its variant:
\* the context or the *http.Request first if the variant has one, then the
\* parameter bound at construction if it has one, then the decoded message;
\* each is of the type the func declares at that place.
C12_DispatchOrder ==
    \A p \in Procs :
        Invoked(p) =>
            /\ CallArgs(p) = ExpectedArgs(p)
            /\ Len(CallArgs(p)) = Len(InOf)
            /\ \A i \in DOMAIN CallArgs(p) :
                 \/ CallArgs(p)[i].type = InOf[i]
                 \/ CallArgs(p)[i].type = "backgroundCtx" /\ InOf[i] = "context.Context"

C12_Witness ==
    \E p \in Procs :
        /\ Done(p) /\ Invoked(p)
        /\ ups.handlerType = contextParamHandlerType
        /\ CallArgs(p) = <<CtxValue, [type |-> "int", val |-> "1"], MsgValue("a")>>

\* C13: a variant that binds a parameter, called with a parameter whose
\* type is not assignable to the declared type, panics in the constructor;
\* no request is ever served by it.
C13_MismatchPanicsAtConstruction ==
    (ups.call # "pending" /\ ValidOut /\ BindsParameter /\ ~ParameterFits) =>
        /\ ConstructionPanicked
        /\ \A p \in Procs : pc[p] = "idle"

C13_Witness ==
    /\ ConstructionPanicked
    /\ ups.panic = "ups: param does not match param parameter type"
    /\ InOf = <<"context.Context", "int", "*HelloRequest">>
    /\ ups.parameter.type = "backgroundCtx"

\* C14: a two-argument func registered with a parameter is called with
\* that parameter first and the decoded message second.
C14_TwoArgsParameterFirst ==
    \A p \in Procs :
        (Invoked(p) /\ Len(InOf) = 2 /\ ups.parameter # NilParameter) =>
            CallArgs(p) = <<ups.parameter, MsgValue(Decoded(p).msg)>>

\* C15: without a parameter the constructor accepts only one-argument
\* funcs and two-argument funcs whose first is context.Context or
\* *http.Request; every other two-argument func and every three-argument
\* func makes it panic.
C15_NoParameterShapes ==
    (ups.call # "pending" /\ ups.parameter = NilParameter) =>
        /\ ((Len(InOf) = 2 /\ ~IsTransport(InOf[1])) \/ Len(InOf) = 3) => ConstructionPanicked
        /\ Built => (Len(InOf) = 1 \/ (Len(InOf) = 2 /\ IsTransport(InOf[1])))

C15_Witness ==
    /\ ConstructionPanicked /\ ups.parameter = NilParameter
    /\ InOf = <<"int", "*HelloRequest">> /\ ValidOut

\* ------------------------------------------------ failures and responses
\* The request reaches the decoder and its body does not decode in the
\* negotiated format.
Undecodable(p) ==
    /\ Negotiated(p) /\ Expected(req[p].header, ups.JSONMarshaler) # "reject"
    /\ Decoded(p).err

DecodeErrors(p) ==
    { i \in EvIdx(p, "logError") : log[p][i].a \in {"jsonpb.Unmarshal", "proto.Unmarshal"} }

\* C16: when the body does not decode, the status is 500, the error hook
\* is called, the handler is not invoked, and the pooled message is reset
\* and put back.
C16_DecodeFailure ==
    \A p \in Procs :
        (Undecodable(p) /\ Has(p, "Unmarshal")) =>
            /\ statusCode[p] = 500
            /\ Cardinality(DecodeErrors(p)) = 1
            /\ ~Has(p, "logRequestMessage") /\ ~Has(p, "Call")
            /\ Done(p) =>
                 /\ EndStatus(p) = 500 /\ SentStatus(p) = 500
                 /\ Count(p, "Reset") = 1 /\ Count(p, "Put") = 1
                 /\ FirstIdx(p, "Reset") < FirstIdx(p, "Put")
                 /\ \A i \in pool : inst[i] = EmptyMsg

C16_Witness ==
    \E p \in Procs :
        /\ Done(p) /\ Undecodable(p)
        /\ req[p].body = <<"{", "a", "x", "}">>
        /\ pool # {} /\ EndStatus(p) = 500

\* The handler returned a non-nil error that is a StatusCoder.
CoderReturned(p) ==
    /\ Invoked(p) /\ ups.numOut > 1
    /\ HandlerOutcome(p).kind = "return"
    /\ ~HandlerOutcome(p).err.isNil /\ HandlerOutcome(p).err.coder

\* C17: the final status is 200, 405, 415 or 500, or the code of the
\* StatusCoder error the handler returned; apart from that, 405 comes only
\* with a method other than POST and 415 only with a media type the
\* negotiation rejects.
C17_StatusCodes ==
    \A p \in Procs :
        Done(p) =>
            IF CoderReturned(p)
            THEN EndStatus(p) = HandlerOutcome(p).err.code
            ELSE /\ EndStatus(p) \in {200, 405, 415, 500}
                 /\ EndStatus(p) = 405 => req[p].method # "POST"
                 /\ EndStatus(p) = 415 =>
                      (Negotiated(p) /\ Expected(req[p].header, ups.JSONMarshaler) = "reject")

C17_Witness ==
    \E p \in Procs :
        /\ Done(p) /\ CoderReturned(p)
        /\ EndStatus(p) = 418 /\ SentStatus(p) = 418

\* The handler returned a message and no error, and the message encoded.
Success(p) ==
    /\ Invoked(p) /\ HandlerOutcome(p).kind = "return"
    /\ HandlerOutcome(p).err.isNil
    /\ MarshalOk(p)

MatchingContentType(p) ==
    IF IsText(p) THEN "application/json" ELSE "application/octet-stream"

\* C18 as stated: the response Content-Type matches the negotiated format
\* on success and is unset on every error path.
C18_UnsetOnErrorPaths ==
    \A p \in Procs :
        Done(p) =>
            /\ Success(p) => ctype[p] = MatchingContentType(p)
            /\ ~Success(p) => ctype[p] = ""

\* C18, amended: on success the response Content-Type matches the
\* negotiated format; on the other paths ServeHTTP sets none itself: a
\* response sent by http.Error carries the text/plain that http.Error
\* sets, and a 200 response without a message carries none.
C18_ContentType ==
    \A p \in Procs :
        /\ Has(p, "Header.Set") =>
             (Success(p) /\ TheArg(p, "Header.Set") = MatchingContentType(p))
        /\ Done(p) =>
             /\ Success(p) => (Count(p, "Header.Set") = 1 /\ ctype[p] = MatchingContentType(p))
             /\ ~Success(p) =>
                  ctype[p] = IF Has(p, "http.Error") THEN "text/plain; charset=utf-8" ELSE ""

C18_Witness ==
    \E p \in Procs :
        /\ Done(p) /\ Success(p)
        /\ req[p].header.mt = "application/x-protobuf"
        /\ ctype[p] = "application/octet-stream"

\* The message the handler returned: a new one greeting the name it saw,
\* or the request message itself.
Returned(p) ==
    IF HandlerOutcome(p).result = "same"
    THEN TheArg(p, "Call").msg
    ELSE Greet(TheArg(p, "Call").msg)

\* C19: for a valid request the response body decodes, in the format of
\* the request, to the message the handler returned.
C19_RoundTrip ==
    \A p \in Procs :
        (Done(p) /\ Valid(p)) =>
            /\ EndStatus(p) = 200
            /\ Unmarshal(IsText(p), written[p], EmptyMsg) = [err |-> FALSE, msg |-> Returned(p)]

C19_Witness ==
    \E p \in Procs :
        /\ Done(p) /\ Valid(p) /\ IsText(p)
        /\ written[p] = <<"{", "Hello, a!", "}">>

\* C20: the end-of-request hook is called exactly once per call, as its
\* last step and after the response was sent, with the method of the
\* request and the status that was sent.
C20_EndHookOnce ==
    \A p \in Procs :
        /\ (InFlight(p) /\ ~Done(p)) => ~Has(p, "logEndRequest")
        /\ Done(p) =>
             /\ Count(p, "logEndRequest") = 1
             /\ log[p][Len(log[p])].ev = "logEndRequest"
             /\ TheArg(p, "logEndRequest").method = req[p].method
             /\ EndStatus(p) = SentStatus(p)
             /\ EndStatus(p) = statusCode[p]
             /\ EndStatus(p) # 200 => Count(p, "http.Error") = 1
             /\ (Success(p) /\ \A i \in EvIdx(p, "logError") : log[p][i].a # "w.Write") =>
                    written[p] = TheArg(p, IF IsText(p) THEN "logResponseJSON"
                                                         ELSE "logResponseBytes")

C20_Witness ==
    \E p \in Procs :
        /\ Done(p) /\ Has(p, "logPanic")
        /\ TheArg(p, "logEndRequest") = [method |-> "POST", status |-> 500]

\* ------------------------------------------------------------------ hooks
\* C21: the start-of-request hook is called exactly once for every request,
\* whatever its method, media type or body, and it is the first thing the
\* call does: before the body is read and before every other hook.
C21_StartHookFirst ==
    \A p \in Procs :
        InFlight(p) =>
            /\ Count(p, "logStartRequest") = 1
            /\ log[p][1] = Ev("logStartRequest", req[p].method, FALSE)

C21_Witness ==
    \E p \in Procs :
        /\ Done(p) /\ req[p].method = "GET" /\ req[p].readErr
        /\ Count(p, "logStartRequest") = 1 /\ EndStatus(p) = 405

\* The two outcomes of a call.  WroteMessage: the write loop of ups.go:390-400
\* ran with the encoded response message.  SentError: http.Error was called.
WroteMessage(p) == MarshalOk(p) /\ ~Has(p, "http.Error")
SentError(p) == Has(p, "http.Error")

\* C22 as stated: every finished call has exactly one outcome, the encoded
\* response message written as the body or an error response with the
\* status code and the formatter's text; the formatter is called only on
\* the error outcome.  The code takes the write loop whenever the status is
\* 200, so a handler error whose StatusCode() is 200 (and the nil panic of
\* C5) gives neither: a 200 with no message and no error response.
C22_ExactlyOneOutcome ==
    \A p \in Procs :
        /\ Has(p, "ErrorResponse") => SentError(p)
        /\ Done(p) =>
              /\ WroteMessage(p) # SentError(p)
              /\ SentError(p) =>
                    /\ TheArg(p, "http.Error") = EndStatus(p)
                    /\ Count(p, "ErrorResponse") = (IF ups.ErrorResponse THEN 1 ELSE 0)
                    /\ TheArg(p, "Fprintln") =
                          (IF ups.ErrorResponse THEN FormatterText(EndStatus(p)) ELSE <<>>)
                              \o <<"\n">>

\* The status and the body a call owes, from the request, the handler's
\* outcome and the formatter alone; no hook takes part.
StatusFor(p) ==
    IF req[p].method # "POST" THEN StatusMethodNotAllowed
    ELSE IF req[p].readErr THEN StatusInternalServerError
    ELSE IF Expected(req[p].header, ups.JSONMarshaler) = "reject" THEN StatusUnsupportedMediaType
    ELSE IF Decoded(p).err THEN StatusInternalServerError
    ELSE LET o == HandlerOutcome(p)
         IN  IF o.kind = "panic"
             THEN (IF Recovered(o.pv) THEN StatusInternalServerError ELSE StatusOK)
             ELSE IF ups.numOut > 1 /\ ~o.err.isNil
             THEN ErrorStatus(o.err)
             ELSE IF o.result \in {"fresh", "same"} THEN StatusOK
             ELSE StatusInternalServerError

BodyFor(p) ==
    IF StatusFor(p) # StatusOK
    THEN errorResponse(ups.ErrorResponse, StatusFor(p)) \o <<"\n">>
    ELSE IF Success(p) THEN Owed(p) ELSE <<>>

\* What goes to the client: the text http.Error prints, or the bytes the
\* writer accepted.
BodySent(p) ==
    IF SentError(p) THEN TheArg(p, "Fprintln") ELSE written[p]

\* The writer reported an error and cut the body short.
WriteFailed(p) == \E i \in EvIdx(p, "logError") : log[p][i].a = "w.Write"

Prefix(s, t) == Len(s) <= Len(t) /\ s = SubSeq(t, 1, Len(s))

ReachesPool(p) ==
    /\ Negotiated(p) /\ Expected(req[p].header, ups.JSONMarshaler) # "reject"
    /\ pc[p] # "acquire"

\* C24 as stated: what the constructor returned never fails a request
\* because of the func's shape: the pool hands every request that reaches
\* it an instance of the recorded request type, a decodable request gets
\* to the func, and the func is called with arguments of its declared
\* types.  The constructor accepts a message parameter declared as an
\* interface type (proto.Message), for which the pool's New panics on the
\* first Get: every such request ends with 500.
C24_ShapesFailOnlyAtConstruction ==
    \A p \in Procs :
        (Built /\ ReachesPool(p)) =>
            /\ ~Has(p, "New")
            /\ Has(p, "Get")
            /\ (Done(p) /\ ~Decoded(p).err) => Invoked(p)
            /\ Invoked(p) => Len(CallArgs(p)) = Len(InOf)

\* C25 as stated: the media type is negotiated before the body is read: a
\* POST whose media type is rejected ends with 415 and its body is never
\* read, also when reading it would fail.  The code reads the whole body
\* (ups.go:290-296) before it looks at Content-Type (298-317), so the body
\* of a rejected request is read, and a failing read gives 500.
C25_NegotiateBeforeRead ==
    \A p \in Procs :
        (InFlight(p) /\ req[p].method = "POST"
           /\ Expected(req[p].header, ups.JSONMarshaler) = "reject") =>
            /\ ~Has(p, "ReadFrom")
            /\ Done(p) => (EndStatus(p) = StatusUnsupportedMediaType
                           /\ SentStatus(p) = StatusUnsupportedMediaType)

\* The raw-request and raw-response hooks of the negotiated format, and
\* those of the other format.
RawRequestHook(p) == IF IsText(p) THEN "logRequestJSON" ELSE "logRequestBytes"
RawResponseHook(p) == IF IsText(p) THEN "logResponseJSON" ELSE "logResponseBytes"
OtherRawHooks(p) ==
    IF IsText(p) THEN {"logRequestBytes", "logResponseBytes"}
    ELSE {"logRequestJSON", "logResponseJSON"}

\* The calls of a successful request, in the order the claim gives them;
\* the decode, the func and the encode between the hooks.
SuccessOrder(p) ==
    << "logStartRequest", RawRequestHook(p), "Unmarshal", "logRequestMessage", "Call",
       "logResponseMessage", "Marshal", RawResponseHook(p), "logEndRequest" >>

\* C26: for a request that succeeds each hook fires exactly once, in the
\* order start, raw request (of the negotiated format), decoded request,
\* response message, raw response, end; the raw-request hook fires before
\* the decode, so when the decode fails it has fired and the
\* decoded-request hook has not.
C26_HookOrder ==
    \A p \in Procs :
        /\ (Done(p) /\ Success(p)) =>
              /\ \A i \in DOMAIN SuccessOrder(p) : Count(p, SuccessOrder(p)[i]) = 1
              /\ \A i \in 1 .. Len(SuccessOrder(p)) - 1 :
                    FirstIdx(p, SuccessOrder(p)[i]) < FirstIdx(p, SuccessOrder(p)[i + 1])
              /\ \A h \in OtherRawHooks(p) : ~Has(p, h)
              /\ ~Has(p, "logPanic")
        /\ (Undecodable(p) /\ Has(p, "Unmarshal")) =>
              /\ Count(p, RawRequestHook(p)) = 1
              /\ FirstIdx(p, RawRequestHook(p)) < FirstIdx(p, "Unmarshal")
              /\ TheArg(p, RawRequestHook(p)) = req[p].body
              /\ ~Has(p, "logRequestMessage")

C26_Witness ==
    \E p \in Procs :
        /\ Done(p) /\ Success(p) /\ IsText(p)
        /\ Has(p, "logRequestJSON") /\ Has(p, "logResponseJSON")
        /\ EndStatus(p) = StatusOK

\* The func returned a non-nil error.
ErrorReturned(p) ==
    /\ Invoked(p) /\ ups.numOut > 1
    /\ HandlerOutcome(p).kind = "return" /\ ~HandlerOutcome(p).err.isNil

\* C27: after a non-nil error of the func nothing of the encode step
\* happens: no response-message hook, no Marshal, no raw-response hook, no
\* Content-Type, and no byte of the message that came with the error is
\* held for writing or written.
C27_ErrorSkipsEncode ==
    \A p \in Procs :
        ErrorReturned(p) =>
            /\ pc[p] # "encode"
            /\ ~Has(p, "logResponseMessage") /\ ~Has(p, "Marshal")
            /\ ~Has(p, "logResponseJSON") /\ ~Has(p, "logResponseBytes")
            /\ ~Has(p, "Header.Set")
            /\ resp[p] = <<>> /\ written[p] = <<>>
            /\ Done(p) => EndStatus(p) = ErrorStatus(HandlerOutcome(p).err)

C27_Witness ==
    \E p \in Procs :
        /\ Done(p) /\ ErrorReturned(p)
        /\ HandlerOutcome(p).result = "fresh"
        /\ HandlerOutcome(p).err = CoderErr(StatusTeapot)
        /\ EndStatus(p) = StatusTeapot

\* The encoded response: what the raw-response hook was handed.
Encoded(p) == TheArg(p, RawResponseHook(p))

WriteErrors(p) == { i \in EvIdx(p, "logError") : log[p][i].a = "w.Write" }

\* C28: on the success path the bytes the writer accepted, in order, are
\* the encoded response: inside the loop the bytes sent and the bytes
\* still held make it up, and without a write error all of it is sent.  A
\* write error is reported once to the error hook with tag w.Write, ends
\* the loop, and the end hook still reports 200.
C28_WriteLoop ==
    \A p \in Procs :
        (Success(p) /\ pc[p] \in {"respond", "end", "done"}) =>
            /\ statusCode[p] = StatusOK
            /\ Prefix(written[p], Encoded(p))
            /\ pc[p] = "respond" => (written[p] \o resp[p] = Encoded(p) /\ WriteErrors(p) = {})
            /\ (pc[p] # "respond" /\ WriteErrors(p) = {}) => written[p] = Encoded(p)
            /\ Cardinality(WriteErrors(p)) <= 1
            /\ Done(p) => (EndStatus(p) = StatusOK /\ ~SentError(p))

C28_Witness ==
    \E p \in Procs :
        /\ Success(p) /\ pc[p] = "respond"
        /\ written[p] # <<>> /\ resp[p] # <<>>
        /\ written[p] \o resp[p] = Encoded(p)

\* The func returned a message and no error, and encoding it failed.
EncodeFailed(p) ==
    /\ Invoked(p) /\ HandlerOutcome(p).kind = "return"
    /\ ~ErrorReturned(p)
    /\ Has(p, "Marshal") /\ TheArg(p, "Marshal") = "err"

MarshalErrors(p) ==
    { i \in EvIdx(p, "logError") :
        log[p][i].a = (IF IsText(p) THEN "JSONMarshaler.MarshalToString" ELSE "proto.Marshal") }

\* C29: when the encoding of the returned message fails the status is 500,
\* the error hook is called once with the tag of the failing marshal, no
\* raw-response hook fires, no Content-Type of the negotiated format is
\* set, nothing is written by the write loop, and the pooled message is
\* reset and put back once, before the response is sent.
C29_EncodeFailure ==
    \A p \in Procs :
        EncodeFailed(p) =>
            /\ statusCode[p] = StatusInternalServerError
            /\ Cardinality(MarshalErrors(p)) = 1 /\ Count(p, "logError") = 1
            /\ ~Has(p, "logResponseJSON") /\ ~Has(p, "logResponseBytes")
            /\ ~Has(p, "Header.Set") /\ ctype[p] # MatchingContentType(p)
            /\ resp[p] = <<>> /\ written[p] = <<>>
            /\ Done(p) =>
                  /\ EndStatus(p) = StatusInternalServerError
                  /\ SentStatus(p) = StatusInternalServerError
                  /\ Count(p, "Reset") = 1 /\ Count(p, "Put") = 1
                  /\ FirstIdx(p, "Put") < FirstIdx(p, "http.Error")

C29_Witness ==
    \E p \in Procs :
        /\ Done(p) /\ EncodeFailed(p) /\ IsText(p)
        /\ Has(p, "logResponseMessage") /\ Has(p, "Put")
        /\ EndStatus(p) = StatusInternalServerError

\* C30 as stated: whatever the writer returns, the write loop ends and the
\* end hook is reached.  The loop leaves only on an error or on
\* n >= len(resp) (ups.go:391-399): with a writer that keeps returning
\* (0, nil) for a non-empty resp it calls w.Write(resp) for ever.
C30_WriteLoopTerminates ==
    \A p \in Procs : (pc[p] = "respond") ~> (pc[p] = "end")

\* C31 as stated: a call ends with status 200 only when the func was
\* invoked, returned no non-nil error and its message was encoded; the
\* response then carries the encoding as its body (as far as the writer
\* took it) and the Content-Type of the format.  A StatusCoder error with
\* code 200 (C22) and a nil panic (C5) end with 200 and none of this.
C31_OkOnlyOnSuccess ==
    \A p \in Procs :
        (Done(p) /\ EndStatus(p) = StatusOK) =>
            /\ Success(p)
            /\ ~SentError(p)
            /\ IF WriteErrors(p) = {}
               THEN written[p] = Encoded(p)
               ELSE Prefix(written[p], Encoded(p))
            /\ ctype[p] = MatchingContentType(p)

\* The calls of the error hook and of the panic hook that reached a
\* configured callback.
FailureReports(p) ==
    IF HookRuns(ups.hooks) THEN EvIdx(p, "logError") \cup EvIdx(p, "logPanic") ELSE {}

\* C32 as stated: a call that ends with status 500 has, with the hooks
\* configured, called the error hook or the panic hook before the end
\* hook.  An error of the func that is not a StatusCoder (or is one with
\* code 500) sets the status and returns (ups.go:358-364) and is reported
\* to no hook.
C32_FailureReported ==
    \A p \in Procs :
        (Done(p) /\ EndStatus(p) = StatusInternalServerError /\ ups.hooks) =>
            \E i \in FailureReports(p) : i < FirstIdx(p, "logEndRequest")

\* The i-th identifier after id, up to wrap-around.
Later(id, i) == (id + i) % Modulus

=============================================================================
